---- MODULE Spec2Model ----
(***************************************************************************)
(* S3 MCP server (remote_fastmcp_server.py) and its interactive client     *)
(* (sse_client.py).                                                         *)
(*                                                                         *)
(* Bytes are sequences of integers 0..255, strings are sequences of        *)
(* Unicode code points.  The S3 backend is the environment of the server:  *)
(* every request either takes effect or raises.                            *)
(***************************************************************************)
EXTENDS Integers, Sequences, FiniteSets

(***************************************************************************)
(* Bounds                                                                  *)
(***************************************************************************)
\* longest byte sequence of an object that exists before the server starts
MaxLen == 3
\* entries per listing page served by the backend
PageSize == 1
\* version ids the backend hands out per key
MaxVersions == 4

(***************************************************************************)
(* Codec: UTF-8 and base64, computed as CPython computes them              *)
(***************************************************************************)
\* U+FFFD, what bytes.decode(errors="replace") substitutes
REPLACEMENT == 65533

IsCont(b) == b >= 128 /\ b <= 191

\* length of the sequence a lead byte announces, 0 for a byte that cannot lead
SeqLen(b0) ==
    IF b0 < 128 THEN 1
    ELSE IF b0 >= 194 /\ b0 <= 223 THEN 2
    ELSE IF b0 >= 224 /\ b0 <= 239 THEN 3
    ELSE IF b0 >= 240 /\ b0 <= 244 THEN 4
    ELSE 0

\* the second byte of a sequence has a range of its own (no overlong forms,
\* no surrogates, nothing above U+10FFFF)
SecondOk(b0, b1) ==
    CASE b0 = 224 -> b1 >= 160 /\ b1 <= 191
      [] b0 = 237 -> b1 >= 128 /\ b1 <= 159
      [] b0 = 240 -> b1 >= 144 /\ b1 <= 191
      [] b0 = 244 -> b1 >= 128 /\ b1 <= 143
      [] OTHER    -> IsCont(b1)

\* how many bytes after position i continue the sequence led by data[i]
RECURSIVE ContRun(_, _, _, _)
ContRun(data, i, j, n) ==
    IF j >= n \/ i + j > Len(data) THEN j - 1
    ELSE IF (IF j = 1 THEN SecondOk(data[i], data[i + j]) ELSE IsCont(data[i + j]))
         THEN ContRun(data, i, j + 1, n)
         ELSE j - 1

\* one step of the decoder at position i: the code point, the bytes consumed,
\* and whether the bytes were well formed
DecodeStep(data, i) ==
    LET b0 == data[i]
        n  == SeqLen(b0)
        k  == IF n <= 1 THEN 0 ELSE ContRun(data, i, 1, n)
    IN  IF n = 1 THEN [cp |-> b0, used |-> 1, ok |-> TRUE]
        ELSE IF n = 0 THEN [cp |-> REPLACEMENT, used |-> 1, ok |-> FALSE]
        ELSE IF k < n - 1 THEN [cp |-> REPLACEMENT, used |-> 1 + k, ok |-> FALSE]
        ELSE IF n = 2 THEN
            [cp |-> (b0 - 192) * 64 + (data[i + 1] - 128), used |-> 2, ok |-> TRUE]
        ELSE IF n = 3 THEN
            [cp |-> (b0 - 224) * 4096 + (data[i + 1] - 128) * 64 + (data[i + 2] - 128),
             used |-> 3, ok |-> TRUE]
        ELSE
            [cp |-> (b0 - 240) * 262144 + (data[i + 1] - 128) * 4096
                    + (data[i + 2] - 128) * 64 + (data[i + 3] - 128),
             used |-> 4, ok |-> TRUE]

RECURSIVE DecodeFrom(_, _)
DecodeFrom(data, i) ==
    IF i > Len(data) THEN <<>>
    ELSE LET s == DecodeStep(data, i)
         IN  <<s.cp>> \o DecodeFrom(data, i + s.used)

RECURSIVE ValidFrom(_, _)
ValidFrom(data, i) ==
    IF i > Len(data) THEN TRUE
    ELSE LET s == DecodeStep(data, i)
         IN  s.ok /\ ValidFrom(data, i + s.used)

\* bytes.decode("utf-8", errors="replace")
DecodeReplace(data) == DecodeFrom(data, 1)

\* bytes.decode("utf-8") raises UnicodeDecodeError exactly when this is FALSE
Utf8Valid(data) == ValidFrom(data, 1)

\* bytes.decode("utf-8") of bytes it accepts
Utf8Decode(data) == DecodeFrom(data, 1)

IsSurrogate(cp) == cp >= 55296 /\ cp <= 57343

EncodeCp(cp) ==
    IF cp < 128 THEN <<cp>>
    ELSE IF cp < 2048 THEN <<192 + (cp \div 64), 128 + (cp % 64)>>
    ELSE IF cp < 65536 THEN
        <<224 + (cp \div 4096), 128 + ((cp \div 64) % 64), 128 + (cp % 64)>>
    ELSE <<240 + (cp \div 262144), 128 + ((cp \div 4096) % 64),
           128 + ((cp \div 64) % 64), 128 + (cp % 64)>>

RECURSIVE Utf8Encode(_)
Utf8Encode(s) ==
    IF s = <<>> THEN <<>> ELSE EncodeCp(Head(s)) \o Utf8Encode(Tail(s))

\* str.encode("utf-8") raises UnicodeEncodeError on a lone surrogate
Encodable(s) == \A i \in 1..Len(s) : ~IsSurrogate(s[i])

\* the base64 alphabet: sextet -> ASCII code
B64Char(v) ==
    IF v < 26 THEN 65 + v
    ELSE IF v < 52 THEN 97 + (v - 26)
    ELSE IF v < 62 THEN 48 + (v - 52)
    ELSE IF v = 62 THEN 43
    ELSE 47

B64Pad == 61

RECURSIVE B64Encode(_)
B64Encode(data) ==
    IF Len(data) = 0 THEN <<>>
    ELSE IF Len(data) = 1 THEN
        <<B64Char(data[1] \div 4), B64Char((data[1] % 4) * 16), B64Pad, B64Pad>>
    ELSE IF Len(data) = 2 THEN
        <<B64Char(data[1] \div 4),
          B64Char(((data[1] % 4) * 16) + (data[2] \div 16)),
          B64Char((data[2] % 16) * 4), B64Pad>>
    ELSE
        <<B64Char(data[1] \div 4),
          B64Char(((data[1] % 4) * 16) + (data[2] \div 16)),
          B64Char(((data[2] % 16) * 4) + (data[3] \div 64)),
          B64Char((data[3] % 64))>>
        \o B64Encode(SubSeq(data, 4, Len(data)))

\* ASCII code -> sextet, -1 for a character outside the alphabet
B64Val(c) ==
    IF c >= 65 /\ c <= 90 THEN c - 65
    ELSE IF c >= 97 /\ c <= 122 THEN c - 97 + 26
    ELSE IF c >= 48 /\ c <= 57 THEN c - 48 + 52
    ELSE IF c = 43 THEN 62
    ELSE IF c = 47 THEN 63
    ELSE -1

RECURSIVE B64Decode(_)
B64Decode(s) ==
    IF Len(s) < 4 THEN <<>>
    ELSE LET a == B64Val(s[1])
             b == B64Val(s[2])
             c == B64Val(s[3])
             d == B64Val(s[4])
         IN  IF s[3] = B64Pad THEN <<(a * 4) + (b \div 16)>>
             ELSE IF s[4] = B64Pad THEN
                 <<(a * 4) + (b \div 16), ((b % 16) * 16) + (c \div 4)>>
             ELSE <<(a * 4) + (b \div 16), ((b % 16) * 16) + (c \div 4), ((c % 4) * 64) + d>>
                  \o B64Decode(SubSeq(s, 5, Len(s)))


(***************************************************************************)
(* Names the model draws its inputs from                                   *)
(***************************************************************************)
Buckets == {"b1"}

\* object keys in the backend's listing order (lexicographic)
KeysSeq == <<[name |-> "a", ext |-> "txt"], [name |-> "b", ext |-> "bin"]>>
Keys == {KeysSeq[i] : i \in DOMAIN KeysSeq}
KeyIdx(k) == CHOOSE i \in DOMAIN KeysSeq : KeysSeq[i] = k

\* values of the AWS_REGION environment variable (unset reads as us-east-1)
EnvRegions == {"us-east-1", "eu-west-1"}
\* values of the region argument of CreateBucket
RegionArgs == {"", "us-east-1", "eu-west-1"}

\* byte values of the objects that exist before the server starts
ByteVals == {65, 169, 195, 226, 255}

RECURSIVE SeqsUpTo(_, _)
SeqsUpTo(S, n) ==
    IF n = 0 THEN {<<>>}
    ELSE LET shorter == SeqsUpTo(S, n - 1)
         IN  shorter \cup {Append(t, v) : t \in shorter, v \in S}

\* content strings callers upload: empty, the ASCII string "QQ==" (the base64
\* form of one byte), and one of characters whose UTF-8 forms are two, three
\* and four bytes long
Contents == {<<>>, <<81, 81, 61, 61>>, <<233, 8364, 128512>>}
StoredBytes == SeqsUpTo(ByteVals, MaxLen)

\* the client connections the event loop serves
Sessions == {"A", "B"}
\* no session's handler is on the event loop's thread
NoSession == "none"
\* the tools whose handlers call boto3_s3_client directly
Boto3Tools == {"CreateBucket", "DeleteBucket", "GetObject", "PutObject", "DeleteObject"}
NoTool == [state |-> "idle", tool |-> "none"]

\* exceptions a backend request raises whatever the state of the store
Faults == {"AccessDenied"}

\* an object slot holds no object, or the one byte sequence stored there
NoObj == {}
Obj(data) == {data}
Body(slot) == CHOOSE data \in slot : TRUE
NoCall == [tool |-> "none"]
NoText == {}

(***************************************************************************)
(* State                                                                   *)
(***************************************************************************)
VARIABLES
    awsRegion,   \* os.getenv("AWS_REGION", "us-east-1"), fixed at start-up
    buckets,     \* backend: the buckets that exist
    objs,        \* backend: objs[b][k], the slot of the current object of key k
    versioned,   \* backend: versioned[b], versioning is enabled on the bucket
    hist,        \* backend: hist[b], noncurrent versions and delete markers
    call,        \* server: the tool call being handled, with bound arguments
    pc,          \* server: position of the handler
    page,        \* server: entries of the listing page the handler holds
    tok,         \* server: paginator's continuation token (rank of last entry)
    more,        \* server: the last listing page was truncated
    reqs,        \* history: backend requests the call has issued, in order
    out,         \* server: results the call has produced, in order
    snap,        \* history: entries the bucket held when the call began
    written,     \* history: written[b][k], the content string the last
                 \* successful PutObject stored there, while it is undisturbed
    cpc,         \* client: "menu" in the loop, "exited", or "crashed"
    choice,      \* client: the menu choice last read
    request,     \* client: the tool call last sent
    printed,     \* client: what the last turn of the loop printed
    loop,        \* event loop: the session whose handler holds its thread
    sess         \* event loop: sess[s], the tool call of session s and how
                 \* far it has come

vars == <<awsRegion, buckets, objs, versioned, hist, call, pc, page, tok, more,
          reqs, out, snap, written, cpc, choice, request, printed, loop, sess>>

client == <<cpc, choice, request, printed>>
sessions == <<loop, sess>>
server == <<awsRegion, buckets, objs, versioned, hist, call, pc, page, tok, more,
            reqs, out, snap, written, sessions>>

backend == <<buckets, objs, versioned, hist>>
cursor == <<page, tok, more>>

(***************************************************************************)
(* The backend: listings and the effect of requests                        *)
(***************************************************************************)
\* a version or delete marker as list_object_versions reports it; VersionId 0
\* stands for the id of the current object of the key
Entry(k, v, m) == [Key |-> k, VersionId |-> v, IsMarker |-> m]

CurrentKeys(b) == {k \in Keys : objs[b][k] # NoObj}
CurrentEntries(b) == {Entry(k, 0, FALSE) : k \in CurrentKeys(b)}
AllEntries(b) == CurrentEntries(b) \cup hist[b]
FreeIds(b, k) == {v \in 1..MaxVersions : \A e \in hist[b] : ~(e.Key = k /\ e.VersionId = v)}

Rank(e) == KeyIdx(e.Key) * (MaxVersions + 1) + e.VersionId

Min(S) == CHOOSE a \in S : \A c \in S : a <= c
Max(S) == CHOOSE a \in S : \A c \in S : a >= c

RECURSIVE SmallestN(_, _)
SmallestN(S, n) ==
    IF n = 0 \/ S = {} THEN {}
    ELSE {Min(S)} \cup SmallestN(S \ {Min(S)}, n - 1)

\* one page of list_objects_v2 after continuation token t
ObjectsPage(b, t) ==
    LET rest == {KeyIdx(k) : k \in CurrentKeys(b)} \ (0..t)
        got  == SmallestN(rest, PageSize)
    IN  [Contents |-> {k \in Keys : KeyIdx(k) \in got},
         IsTruncated |-> rest # got]

\* variant: the listing is fetched once, without following its truncation
VersionsPageFirstOnly(b, t) ==
    LET rest == {Rank(e) : e \in AllEntries(b)} \ (0..t)
        got  == SmallestN(rest, PageSize)
        ents == {e \in AllEntries(b) : Rank(e) \in got}
    IN  [DeleteMarkers |-> {e \in ents : e.IsMarker},
         Versions |-> {e \in ents : ~e.IsMarker},
         IsTruncated |-> FALSE]

\* one page of list_object_versions after key/version marker t
VersionsPage(b, t) ==
    LET rest == {Rank(e) : e \in AllEntries(b)} \ (0..t)
        got  == SmallestN(rest, PageSize)
        ents == {e \in AllEntries(b) : Rank(e) \in got}
    IN  [DeleteMarkers |-> {e \in ents : e.IsMarker},
         Versions |-> {e \in ents : ~e.IsMarker},
         IsTruncated |-> rest # got]

\* the backend can carry out a delete by key alone: with versioning enabled it
\* needs an id for the delete marker and one for the version it retires
CanDeleteKeys(b, K) ==
    versioned[b] =>
        \A k \in K : Cardinality(FreeIds(b, k)) >= (IF objs[b][k] # NoObj THEN 2 ELSE 1)

\* history of the bucket after a delete by key alone of every key in K
HistAfterDeleteKeys(b, K) ==
    IF ~versioned[b] THEN hist[b]
    ELSE hist[b] \cup UNION { LET v1 == Min(FreeIds(b, k))
                              IN  IF objs[b][k] # NoObj
                                  THEN {Entry(k, v1, FALSE),
                                        Entry(k, Min(FreeIds(b, k) \ {v1}), TRUE)}
                                  ELSE {Entry(k, v1, TRUE)} : k \in K }

ObjsAfterDeleteKeys(b, K) == [k \in Keys |-> IF k \in K THEN NoObj ELSE objs[b][k]]

\* the bucket after a delete of the versions and markers in E, each by its id
HistAfterDeleteVersions(b, E) == hist[b] \ E
ObjsAfterDeleteVersions(b, E) ==
    [k \in Keys |-> IF Entry(k, 0, FALSE) \in E THEN NoObj ELSE objs[b][k]]

(***************************************************************************)
(* Requests and results                                                    *)
(***************************************************************************)
Success(payload) == [kind |-> "Success", payload |-> payload]

\* raise ValueError(f"<prefix>{str(e)}")
Failure(prefix, cause) == [kind |-> "Failure", prefix |-> prefix, cause |-> cause]

\* a request as logged: what was asked and how the backend answered
Req(op, params, answer) == [op |-> op, params |-> params, answer |-> answer]

\* the arguments a handler runs with: the declared parameters only, each taking
\* its default when the caller left it out
BindArgs(defaults, required, args) ==
    [p \in (DOMAIN defaults) \cup required |->
        IF p \in DOMAIN args THEN args[p] ELSE defaults[p]]

Idle == pc \in {"idle", "done"}

Finish(tool, args, requests, result) ==
    /\ call' = [tool |-> tool, args |-> args, before |-> buckets]
    /\ reqs' = requests
    /\ out' = <<result>>
    /\ pc' = "done"
    /\ snap' = {}
    /\ UNCHANGED <<awsRegion, cursor, client, sessions>>

Text(s) == [type |-> "str", value |-> s]
Dict(d) == [type |-> "dict", value |-> d]

EmptyBucket == [k \in Keys |-> NoObj]

(***************************************************************************)
(* S3Resource (resources/s3_resource.py), as the specification describes it *)
(***************************************************************************)
\* the fixed allow-list of text extensions
TextExtensions == {"txt", "md", "json", "csv", "py"}

is_text_file(key) == key.ext \in TextExtensions

\* answers of s3_resource.list_buckets: the buckets, or an exception
S3ResourceListBuckets == {[ok |-> TRUE, value |-> buckets]}
                         \cup {[ok |-> FALSE, value |-> e] : e \in Faults}

\* answers of s3_resource.list_objects
S3ResourceListObjects(b) ==
    (IF b \in buckets THEN {[ok |-> TRUE, value |-> CurrentKeys(b)]}
                      ELSE {[ok |-> FALSE, value |-> "NoSuchBucket"]})
    \cup {[ok |-> FALSE, value |-> e] : e \in Faults}

\* answers of a get_object request (s3_resource.get_object and boto3 alike)
GetObjectAnswers(b, k) ==
    (IF b \notin buckets THEN {[ok |-> FALSE, value |-> "NoSuchBucket"]}
     ELSE IF objs[b][k] = NoObj THEN {[ok |-> FALSE, value |-> "NoSuchKey"]}
     ELSE {[ok |-> TRUE, value |-> Body(objs[b][k])]})
    \cup {[ok |-> FALSE, value |-> e] : e \in Faults}

(***************************************************************************)
(* Tool calls as they arrive: optional arguments may be left out, and the  *)
(* client sends PutObject an is_base64 argument the tool does not declare  *)
(***************************************************************************)
CreateBucketCalls ==
    {[bucket |-> b] : b \in Buckets}
    \cup {[bucket |-> b, region |-> r] : b \in Buckets, r \in RegionArgs}

DeleteBucketCalls ==
    {[bucket |-> b] : b \in Buckets}
    \cup {[bucket |-> b, force |-> f] : b \in Buckets, f \in BOOLEAN}

ListObjectsCalls ==
    {[bucket |-> b] : b \in Buckets}
    \cup {[bucket |-> b, prefix |-> "", max_keys |-> 50] : b \in Buckets}

ObjectCalls == {[bucket |-> b, key |-> k] : b \in Buckets, k \in Keys}

PutObjectCalls ==
    {[bucket |-> b, key |-> k, content |-> c] :
        b \in Buckets, k \in Keys, c \in Contents}
    \cup {[bucket |-> b, key |-> k, content |-> c, content_type |-> "application/pdf"] :
        b \in Buckets, k \in Keys, c \in Contents}
    \cup {[bucket |-> b, key |-> k, content |-> c, content_type |-> "text/plain",
            is_base64 |-> FALSE] : b \in Buckets, k \in Keys, c \in Contents}
    \cup {[bucket |-> b, key |-> k, content |-> c, content_type |-> "application/pdf",
            is_base64 |-> TRUE] : b \in Buckets, k \in Keys, c \in Contents}

(***************************************************************************)
(* The resource s3://{bucket}/{key}                                        *)
(***************************************************************************)
\* variant: text keys are decoded leniently, without the base64 fallback
ResourceContentNoFallback(key, data) ==
    IF is_text_file(key) THEN DecodeReplace(data) ELSE Utf8Decode(B64Encode(data))

\* what get_s3_object makes of the bytes it read
ResourceContent(key, data) ==
    IF is_text_file(key)
    THEN IF Utf8Valid(data) THEN Utf8Decode(data)
         ELSE Utf8Decode(B64Encode(data))
    ELSE Utf8Decode(B64Encode(data))

get_s3_object ==
    /\ Idle
    /\ \E args \in ObjectCalls : \E answer \in GetObjectAnswers(args.bucket, args.key) :
        Finish("resource", args,
               <<Req("get_object", [Bucket |-> args.bucket, Key |-> args.key],
                     IF answer.ok THEN "ok" ELSE answer.value)>>,
               IF answer.ok
               THEN Success(Text(ResourceContent(args.key, answer.value)))
               ELSE Failure("Error reading S3 object: ", answer.value))
    /\ UNCHANGED <<backend, written>>

(***************************************************************************)
(* Tools                                                                   *)
(***************************************************************************)
list_buckets_tool ==
    /\ Idle
    /\ \E answer \in S3ResourceListBuckets :
        Finish("ListBuckets", << >>,
               <<Req("list_buckets", << >>, IF answer.ok THEN "ok" ELSE answer.value)>>,
               IF answer.ok THEN Success(Dict([buckets |-> answer.value]))
               ELSE Failure("Failed to list buckets: ", answer.value))
    /\ UNCHANGED <<backend, written>>

create_bucket_defaults == [region |-> ""]

\* region_name = region or os.getenv("AWS_REGION", "us-east-1")
RegionName(region) == IF region # "" THEN region ELSE awsRegion

\* variant: the constraint is left out for the configured default region
CreateBucketParamsDefaultRegion(bucket, region) ==
    IF RegionName(region) # awsRegion
    THEN [Bucket |-> bucket,
          CreateBucketConfiguration |-> [LocationConstraint |-> RegionName(region)]]
    ELSE [Bucket |-> bucket]

\* the parameters of the create_bucket request
CreateBucketParams(bucket, region) ==
    IF RegionName(region) # "us-east-1"
    THEN [Bucket |-> bucket,
          CreateBucketConfiguration |-> [LocationConstraint |-> RegionName(region)]]
    ELSE [Bucket |-> bucket]

CreateBucketAnswers(b) ==
    (IF b \in buckets THEN {"BucketAlreadyOwnedByYou"} ELSE {"ok"}) \cup Faults

create_bucket_tool ==
    /\ Idle
    /\ \E args \in CreateBucketCalls :
        LET a == BindArgs(create_bucket_defaults, {"bucket"}, args)
        IN  \E answer \in CreateBucketAnswers(a.bucket) :
            /\ IF answer = "ok"
               THEN /\ buckets' = buckets \cup {a.bucket}
                    /\ objs' = [objs EXCEPT ![a.bucket] = EmptyBucket]
                    /\ versioned' = [versioned EXCEPT ![a.bucket] = FALSE]
                    /\ hist' = [hist EXCEPT ![a.bucket] = {}]
               ELSE UNCHANGED backend
            /\ UNCHANGED written
            /\ Finish("CreateBucket", args,
                      <<Req("create_bucket", CreateBucketParams(a.bucket, a.region), answer)>>,
                      IF answer = "ok"
                      THEN Success(Dict([status |-> "success", bucket |-> a.bucket]))
                      ELSE Failure("Failed to create bucket: ", answer))

list_objects_defaults == [prefix |-> "", max_keys |-> 1000]

list_objects_tool ==
    /\ Idle
    /\ \E args \in ListObjectsCalls :
        LET a == BindArgs(list_objects_defaults, {"bucket"}, args)
        IN  \E answer \in S3ResourceListObjects(a.bucket) :
            Finish("ListObjects", args,
                   <<Req("list_objects", a, IF answer.ok THEN "ok" ELSE answer.value)>>,
                   IF answer.ok THEN Success(Dict([objects |-> answer.value]))
                   ELSE Failure("Failed to list objects: ", answer.value))
    /\ UNCHANGED <<backend, written>>

\* variant: the body is decoded as latin-1, one character per byte
GetObjectContentLatin1(data) == data

\* response["Body"].read().decode("utf-8", errors="replace")
GetObjectContent(data) == DecodeReplace(data)

get_object_tool ==
    /\ Idle
    /\ \E args \in ObjectCalls : \E answer \in GetObjectAnswers(args.bucket, args.key) :
        Finish("GetObject", args,
               <<Req("get_object", [Bucket |-> args.bucket, Key |-> args.key],
                     IF answer.ok THEN "ok" ELSE answer.value)>>,
               IF answer.ok THEN Success(Text(GetObjectContent(answer.value)))
               ELSE Failure("Failed to get object: ", answer.value))
    /\ UNCHANGED <<backend, written>>

put_object_defaults == [content_type |-> "text/plain"]

\* variant: a call flagged is_base64 has its content decoded before it is stored
PutObjectParamsDecoding(args) ==
    LET a == BindArgs(put_object_defaults, {"bucket", "key", "content"}, args)
    IN  [Bucket |-> a.bucket, Key |-> a.key,
         Body |-> IF "is_base64" \in DOMAIN args /\ args.is_base64
                  THEN DecodeReplace(B64Decode(Utf8Encode(a.content)))
                  ELSE a.content,
         ContentType |-> a.content_type]

\* the parameters of the put_object request the handler makes of a call
PutObjectParams(args) ==
    LET a == BindArgs(put_object_defaults, {"bucket", "key", "content"}, args)
    IN  [Bucket |-> a.bucket, Key |-> a.key, Body |-> a.content,
         ContentType |-> a.content_type]

\* the backend can store one more object under the key: with versioning
\* enabled the object it replaces needs a version id
CanPut(b, k) == (versioned[b] /\ objs[b][k] # NoObj) => FreeIds(b, k) # {}

\* botocore sends a str body as its UTF-8 encoding
PutObjectAnswers(params) ==
    (IF ~Encodable(params.Body) THEN {"UnicodeEncodeError"}
     ELSE IF params.Bucket \notin buckets THEN {"NoSuchBucket"}
     ELSE IF CanPut(params.Bucket, params.Key) THEN {"ok"}
     ELSE {})
    \cup Faults

put_object_tool ==
    /\ Idle
    /\ \E args \in PutObjectCalls :
        LET params == PutObjectParams(args)
            b == params.Bucket
            k == params.Key
        IN  \E answer \in PutObjectAnswers(params) :
            /\ IF answer = "ok"
               THEN /\ objs' = [objs EXCEPT ![b][k] = Obj(Utf8Encode(params.Body))]
                    /\ hist' = IF versioned[b] /\ objs[b][k] # NoObj
                               THEN [hist EXCEPT ![b] = @ \cup {Entry(k, Min(FreeIds(b, k)), FALSE)}]
                               ELSE hist
                    /\ written' = [written EXCEPT ![b][k] = {params.Body}]
                    /\ UNCHANGED <<buckets, versioned>>
               ELSE UNCHANGED <<backend, written>>
            /\ Finish("PutObject", args, <<Req("put_object", params, answer)>>,
                      IF answer = "ok" THEN Success(Dict([status |-> "success"]))
                      ELSE Failure("Failed to put object: ", answer))

DeleteObjectAnswers(b, k) ==
    (IF b \notin buckets THEN {"NoSuchBucket"}
     ELSE IF CanDeleteKeys(b, {k}) THEN {"ok"}
     ELSE {})
    \cup Faults

delete_object_tool ==
    /\ Idle
    /\ \E args \in ObjectCalls : \E answer \in DeleteObjectAnswers(args.bucket, args.key) :
        /\ IF answer = "ok"
           THEN /\ objs' = [objs EXCEPT ![args.bucket] = ObjsAfterDeleteKeys(args.bucket, {args.key})]
                /\ hist' = [hist EXCEPT ![args.bucket] = HistAfterDeleteKeys(args.bucket, {args.key})]
                /\ written' = [written EXCEPT ![args.bucket][args.key] = NoText]
                /\ UNCHANGED <<buckets, versioned>>
           ELSE UNCHANGED <<backend, written>>
        /\ Finish("DeleteObject", args,
                  <<Req("delete_object", [Bucket |-> args.bucket, Key |-> args.key], answer)>>,
                  IF answer = "ok" THEN Success(Dict([status |-> "success"]))
                  ELSE Failure("Failed to delete object: ", answer))

(***************************************************************************)
(* DeleteBucket: one step per backend request                              *)
(***************************************************************************)
\* variant: a call that leaves force out is handled as a forced one
delete_bucket_defaults_forced == [force |-> TRUE]

delete_bucket_defaults == [force |-> FALSE]

\* the handler leaves with one result
Return(result) ==
    /\ out' = Append(out, result)
    /\ pc' = "done"
    /\ UNCHANGED <<awsRegion, call, cursor, snap, client, sessions>>

\* the handler moves on to its next request
Goto(next) ==
    /\ pc' = next
    /\ UNCHANGED <<awsRegion, call, out, snap, client, sessions>>

Log(op, params, answer) == reqs' = Append(reqs, Req(op, params, answer))

\* variant: the exception leaves the handler as it is
DeleteBucketEscapes(cause) == [kind |-> "Escaped", prefix |-> "", cause |-> cause]

DeleteBucketFailure(cause) == Failure("Failed to delete bucket: ", cause)

\* the call arrives; with force the handler first checks the bucket exists
delete_bucket_tool ==
    /\ Idle
    /\ \E args \in DeleteBucketCalls :
        LET a == BindArgs(delete_bucket_defaults, {"bucket"}, args)
        IN  /\ call' = [tool |-> "DeleteBucket", args |-> args, before |-> buckets,
                        bucket |-> a.bucket, force |-> a.force]
            /\ pc' = IF a.force THEN "head_bucket" ELSE "delete_bucket"
            /\ snap' = AllEntries(a.bucket)
    /\ reqs' = << >>
    /\ out' = << >>
    /\ page' = {}
    /\ tok' = 0
    /\ more' = FALSE
    /\ UNCHANGED <<awsRegion, backend, written, client, sessions>>

HeadBucketAnswers(b) == (IF b \in buckets THEN {"ok"} ELSE {"404"}) \cup Faults

\* variant: the exception of head_bucket reaches the outer handler
HeadBucketFailedRaises(cause) == DeleteBucketFailure(cause)

\* what the handler returns when head_bucket raises
HeadBucketFailed(cause) ==
    Success(Dict([status |-> "success", message |-> "does not exist"]))

\* head_bucket inside try/except: any exception returns success
HeadBucket ==
    /\ pc = "head_bucket"
    /\ \E answer \in HeadBucketAnswers(call.bucket) :
        /\ Log("head_bucket", [Bucket |-> call.bucket], answer)
        /\ IF answer = "ok"
           THEN Goto("list_objects") /\ UNCHANGED cursor
           ELSE Return(HeadBucketFailed(answer))
    /\ UNCHANGED <<backend, written>>

ListAnswers(b) == (IF b \in buckets THEN {"ok"} ELSE {"NoSuchBucket"}) \cup Faults

\* the paginator fetches the next page of list_objects_v2
ListObjectsPage ==
    /\ pc = "list_objects"
    /\ \E answer \in ListAnswers(call.bucket) :
        /\ Log("list_objects_v2", [Bucket |-> call.bucket, After |-> tok], answer)
        /\ IF answer = "ok"
           THEN LET p == ObjectsPage(call.bucket, tok)
                IN  /\ page' = p.Contents
                    /\ more' = p.IsTruncated
                    /\ tok' = IF p.Contents = {} THEN 0
                              ELSE Max({KeyIdx(k) : k \in p.Contents})
                    /\ Goto(IF p.Contents # {} THEN "delete_objects"
                            ELSE "list_versions")
           ELSE Return(DeleteBucketFailure(answer))
    /\ UNCHANGED <<backend, written>>

BatchAnswers(b, ok) == (IF b \notin buckets THEN {"NoSuchBucket"}
                        ELSE IF ok THEN {"ok"} ELSE {}) \cup Faults

\* the objects of the page are deleted by key
DeleteObjectsBatch ==
    /\ pc = "delete_objects"
    /\ LET b == call.bucket
           objects == {[Key |-> k] : k \in page}
       IN  \E answer \in BatchAnswers(b, CanDeleteKeys(b, page)) :
            /\ Log("delete_objects", [Bucket |-> b, Objects |-> objects], answer)
            /\ IF answer = "ok"
               THEN /\ objs' = [objs EXCEPT ![b] = ObjsAfterDeleteKeys(b, page)]
                    /\ hist' = [hist EXCEPT ![b] = HistAfterDeleteKeys(b, page)]
                    /\ written' = [written EXCEPT ![b] =
                                      [k \in Keys |-> IF k \in page THEN NoText ELSE @[k]]]
                    /\ UNCHANGED <<buckets, versioned>>
                    /\ page' = {}
                    /\ tok' = IF more THEN tok ELSE 0
                    /\ UNCHANGED more
                    /\ Goto(IF more THEN "list_objects" ELSE "list_versions")
               ELSE /\ UNCHANGED <<backend, written>>
                    /\ Return(DeleteBucketFailure(answer))

\* the paginator fetches the next page of list_object_versions, inside
\* try/except: any exception ends the loop and the handler goes on
ListVersionsPage ==
    /\ pc = "list_versions"
    /\ \E answer \in ListAnswers(call.bucket) :
        /\ Log("list_object_versions", [Bucket |-> call.bucket, After |-> tok], answer)
        /\ IF answer = "ok"
           THEN LET p == VersionsPage(call.bucket, tok)
                    ents == p.DeleteMarkers \cup p.Versions
                IN  /\ page' = ents
                    /\ more' = p.IsTruncated
                    /\ tok' = IF ents = {} THEN tok ELSE Max({Rank(e) : e \in ents})
                    /\ Goto(IF ents # {} THEN "delete_versions" ELSE "delete_bucket")
           ELSE Goto("delete_bucket") /\ UNCHANGED cursor
    /\ UNCHANGED <<backend, written>>

VersionRef(e) == [Key |-> e.Key, VersionId |-> e.VersionId]

\* the markers and versions of the page are deleted by id, inside the same
\* try/except
DeleteVersionsBatch ==
    /\ pc = "delete_versions"
    /\ LET b == call.bucket
           objects == {VersionRef(e) : e \in page}
       IN  \E answer \in BatchAnswers(b, TRUE) :
            /\ Log("delete_objects", [Bucket |-> b, Objects |-> objects], answer)
            /\ IF answer = "ok"
               THEN /\ objs' = [objs EXCEPT ![b] = ObjsAfterDeleteVersions(b, page)]
                    /\ hist' = [hist EXCEPT ![b] = HistAfterDeleteVersions(b, page)]
                    /\ written' = [written EXCEPT ![b] =
                          [k \in Keys |-> IF Entry(k, 0, FALSE) \in page THEN NoText ELSE @[k]]]
                    /\ UNCHANGED <<buckets, versioned>>
                    /\ page' = {}
                    /\ UNCHANGED <<tok, more>>
                    /\ Goto(IF more THEN "list_versions" ELSE "delete_bucket")
               ELSE /\ UNCHANGED <<backend, written>>
                    /\ UNCHANGED cursor
                    /\ Goto("delete_bucket")

DeleteBucketAnswers(b) ==
    (IF b \notin buckets THEN {"NoSuchBucket"}
     ELSE IF AllEntries(b) # {} THEN {"BucketNotEmpty"}
     ELSE {"ok"})
    \cup Faults

\* boto3_s3_client.delete_bucket, and the handler's result
DeleteBucketRequest ==
    /\ pc = "delete_bucket"
    /\ LET b == call.bucket
       IN  \E answer \in DeleteBucketAnswers(b) :
            /\ Log("delete_bucket", [Bucket |-> b], answer)
            /\ IF answer = "ok"
               THEN /\ buckets' = buckets \ {b}
                    /\ versioned' = [versioned EXCEPT ![b] = FALSE]
                    /\ UNCHANGED <<objs, hist>>
                    /\ Return(Success(Dict([status |-> "success", message |-> "deleted"])))
               ELSE /\ UNCHANGED backend
                    /\ Return(DeleteBucketFailure(answer))
    /\ UNCHANGED written

(***************************************************************************)
(* The server                                                              *)
(***************************************************************************)
\* the handler state when the server starts
InitServer ==
    /\ awsRegion \in EnvRegions
    /\ call = NoCall
    /\ pc = "idle"
    /\ page = {}
    /\ tok = 0
    /\ more = FALSE
    /\ reqs = << >>
    /\ out = << >>
    /\ snap = {}
    /\ written = [b \in Buckets |-> [k \in Keys |-> NoText]]
    /\ cpc = "menu"
    /\ choice = ""
    /\ request = NoCall
    /\ printed = << >>
    /\ loop = NoSession
    /\ sess = [s \in Sessions |-> NoTool]

\* the store when the server starts: buckets without versioning, whose
\* objects, uploaded by others, need not be text
Init ==
    /\ InitServer
    /\ buckets \in SUBSET Buckets
    /\ objs \in [Buckets -> [Keys -> {NoObj, Obj(<<255>>)}]]
    /\ versioned = [b \in Buckets |-> FALSE]
    /\ hist = [b \in Buckets |-> {}]
    /\ \A b \in Buckets : b \notin buckets => objs[b] = EmptyBucket

(***************************************************************************)
(* Other clients of the store                                              *)
(***************************************************************************)
\* someone else uploads an object to a bucket without versioning between two
\* requests of a running DeleteBucket (what others stored before a call is in
\* the initial store)
OtherClientPut ==
    /\ ~Idle
    /\ \E b \in buckets, k \in Keys :
        /\ ~versioned[b]
        /\ objs[b][k] # Obj(<<255>>)
        /\ objs' = [objs EXCEPT ![b][k] = Obj(<<255>>)]
        /\ written' = [written EXCEPT ![b][k] = NoText]
    /\ UNCHANGED <<awsRegion, buckets, versioned, hist, call, pc, cursor, reqs, out, snap,
                   client, sessions>>

Next ==
    \/ OtherClientPut
    \/ get_s3_object
    \/ list_buckets_tool
    \/ create_bucket_tool
    \/ delete_bucket_tool
    \/ HeadBucket
    \/ ListObjectsPage
    \/ DeleteObjectsBatch
    \/ ListVersionsPage
    \/ DeleteVersionsBatch
    \/ DeleteBucketRequest
    \/ list_objects_tool
    \/ get_object_tool
    \/ put_object_tool
    \/ delete_object_tool

Spec == Init /\ [][Next]_vars

(***************************************************************************)
(* Buckets with versioning enabled: the bucket tools and DeleteObject      *)
(***************************************************************************)
\* noncurrent versions and delete markers a versioned bucket may start with
InitHists == {{}, {Entry(KeysSeq[1], 1, FALSE), Entry(KeysSeq[1], 2, TRUE)}}

InitVersions ==
    /\ InitServer
    /\ buckets = Buckets
    /\ objs \in [Buckets -> [Keys -> {NoObj, Obj(<<255>>)}]]
    /\ versioned = [b \in Buckets |-> TRUE]
    /\ hist \in [Buckets -> InitHists]

NextVersions ==
    \/ list_buckets_tool
    \/ create_bucket_tool
    \/ delete_bucket_tool
    \/ HeadBucket
    \/ ListObjectsPage
    \/ DeleteObjectsBatch
    \/ ListVersionsPage
    \/ DeleteVersionsBatch
    \/ DeleteBucketRequest
    \/ list_objects_tool
    \/ delete_object_tool

SpecVersions == InitVersions /\ [][NextVersions]_vars

(***************************************************************************)
(* DeleteBucket alone, with nobody else writing: buckets with and without  *)
(* versioning, whose listings span several pages                           *)
(***************************************************************************)
ForcedHists == InitHists \cup {{Entry(KeysSeq[1], 1, FALSE), Entry(KeysSeq[1], 2, TRUE),
                                Entry(KeysSeq[2], 1, TRUE)}}

InitForced ==
    /\ InitServer
    /\ buckets = Buckets
    /\ objs \in [Buckets -> [Keys -> {NoObj, Obj(<<255>>)}]]
    /\ versioned \in [Buckets -> BOOLEAN]
    /\ hist \in [Buckets -> ForcedHists]
    /\ \A b \in Buckets : ~versioned[b] => hist[b] = {}

NextForced ==
    \/ delete_bucket_tool
    \/ HeadBucket
    \/ ListObjectsPage
    \/ DeleteObjectsBatch
    \/ ListVersionsPage
    \/ DeleteVersionsBatch
    \/ DeleteBucketRequest

\* each boto3 call of the handler is synchronous and returns or raises, so a
\* handler that has a next step takes it
SpecForced ==
    /\ InitForced
    /\ [][NextForced]_vars
    /\ WF_vars(HeadBucket)
    /\ WF_vars(ListObjectsPage)
    /\ WF_vars(DeleteObjectsBatch)
    /\ WF_vars(ListVersionsPage)
    /\ WF_vars(DeleteVersionsBatch)
    /\ WF_vars(DeleteBucketRequest)

(***************************************************************************)
(* Sessions on the one event loop of server.run(transport="sse"): every    *)
(* handler is a coroutine of that loop, and its boto3 call is an ordinary  *)
(* blocking call made on the loop's thread                                 *)
(***************************************************************************)
\* what the store, the handler state and the client have in common with a
\* step of the event loop: nothing
Untouched == UNCHANGED <<awsRegion, backend, call, pc, cursor, reqs, out, snap, written,
                         client>>

\* a tool call arrives on the connection of session s
Arrive(s) ==
    /\ sess[s].state \in {"idle", "done"}
    /\ \E t \in Boto3Tools : sess' = [sess EXCEPT ![s] = [state |-> "arrived", tool |-> t]]
    /\ UNCHANGED loop
    /\ Untouched

\* the loop runs the handler of s up to its boto3 call, which does not return
\* control to the loop: a handler starts only when no other is on the thread
Start(s) ==
    /\ sess[s].state = "arrived"
    /\ loop = NoSession
    /\ loop' = s
    /\ sess' = [sess EXCEPT ![s].state = "in_backend"]
    /\ Untouched

\* the boto3 call returns or raises; the handler returns or raises in turn
\* and the thread goes back to the loop
BackendReturns(s) ==
    /\ sess[s].state = "in_backend"
    /\ loop = s
    /\ loop' = NoSession
    /\ sess' = [sess EXCEPT ![s].state = "done"]
    /\ Untouched

ArriveAny == \E s \in Sessions : Arrive(s)
StartAny == \E s \in Sessions : Start(s)
BackendReturnsAny == \E s \in Sessions : BackendReturns(s)

NextSessions ==
    \/ ArriveAny
    \/ StartAny
    \/ BackendReturnsAny

InitSessions ==
    /\ InitServer
    /\ buckets \in SUBSET Buckets
    /\ objs = [b \in Buckets |-> EmptyBucket]
    /\ versioned = [b \in Buckets |-> FALSE]
    /\ hist = [b \in Buckets |-> {}]

SpecSessions == InitSessions /\ [][NextSessions]_vars

(***************************************************************************)
(* Reading objects of any bytes: GetObject and the s3:// resource          *)
(***************************************************************************)
InitRead ==
    /\ InitServer
    /\ buckets = Buckets
    /\ \E b \in Buckets, k \in Keys, data \in StoredBytes :
        objs = [c \in Buckets |-> IF c = b THEN [EmptyBucket EXCEPT ![k] = Obj(data)]
                                  ELSE EmptyBucket]
    /\ versioned = [b \in Buckets |-> FALSE]
    /\ hist = [b \in Buckets |-> {}]

NextRead ==
    \/ get_s3_object
    \/ get_object_tool

SpecRead == InitRead /\ [][NextRead]_vars

(***************************************************************************)
(* The interactive client: one action per branch of the menu loop          *)
(***************************************************************************)
\* how session.call_tool ends: a result, a result flagged as an error, or an
\* exception (a protocol error, a closed connection)
CallOutcomes == {[kind |-> "result", isError |-> FALSE],
                 [kind |-> "result", isError |-> TRUE],
                 [kind |-> "raises", isError |-> TRUE]}

\* files the user may name: an extension and the bytes read from the file
FileExts == {"pdf", "jpg", "jpeg", "png", "dat"}
FileBytes == {<<>>, <<255>>, <<65, 66, 67>>}

ContentTypeOf(ext) ==
    IF ext = "pdf" THEN "application/pdf"
    ELSE IF ext \in {"jpg", "jpeg"} THEN "image/jpeg"
    ELSE IF ext = "png" THEN "image/png"
    ELSE "application/octet-stream"

Shown(label, value) == <<label, value>>

\* a call inside try/except: the exception is printed and the loop goes on
GuardedCall(ch, tool, args, label, errlabel) ==
    /\ choice' = ch
    /\ request' = [tool |-> tool, args |-> args]
    /\ \E o \in CallOutcomes :
        printed' = IF o.kind = "raises" THEN Shown(errlabel, o) ELSE Shown(label, o)
    /\ cpc' = "menu"
    /\ UNCHANGED server

\* choice 1 awaits call_tool outside any try: an exception leaves main()
MenuListBuckets ==
    /\ cpc = "menu"
    /\ choice' = "1"
    /\ request' = [tool |-> "ListBuckets", args |-> << >>]
    /\ \E o \in CallOutcomes :
        IF o.kind = "raises"
        THEN cpc' = "crashed" /\ printed' = << >>
        ELSE cpc' = "menu" /\ printed' = Shown("Buckets response: ", o)
    /\ UNCHANGED server

MenuCreateBucket ==
    /\ cpc = "menu"
    /\ \E b \in Buckets, r \in RegionArgs :
           GuardedCall("2", "CreateBucket", [bucket |-> b, region |-> r],
                       "Bucket creation result: ", "Error creating bucket: ")

MenuDeleteBucket ==
    /\ cpc = "menu"
    /\ \E b \in Buckets, f \in BOOLEAN :
           GuardedCall("3", "DeleteBucket", [bucket |-> b, force |-> f],
                       "Bucket deletion result: ", "Error deleting bucket: ")

MenuListObjects ==
    /\ cpc = "menu"
    /\ \E b \in Buckets :
           GuardedCall("4", "ListObjects", [bucket |-> b, prefix |-> "", max_keys |-> 50],
                       "Objects response: ", "Error listing objects: ")

\* call_tool returns a CallToolResult, never a dict: the fallback branch prints
MenuGetObject ==
    /\ cpc = "menu"
    /\ \E b \in Buckets, k \in Keys :
           GuardedCall("5", "GetObject", [bucket |-> b, key |-> k],
                       "Content of ", "Error retrieving object: ")

\* the arguments of the upload: typed text, or a file sent as base64 text
UploadArgs(b, k, option, text, ext, data) ==
    IF option = "1"
    THEN [bucket |-> b, key |-> k, content |-> text, content_type |-> "text/plain",
          is_base64 |-> FALSE]
    ELSE [bucket |-> b, key |-> k, content |-> Utf8Decode(B64Encode(data)),
          content_type |-> ContentTypeOf(ext), is_base64 |-> TRUE]

MenuUpload ==
    /\ cpc = "menu"
    /\ \E b \in Buckets, k \in Keys, option \in {"1", "2"}, text \in Contents,
          ext \in FileExts, data \in FileBytes :
           GuardedCall("6", "PutObject", UploadArgs(b, k, option, text, ext, data),
                       "Upload result: ", "Error uploading object: ")

\* the file cannot be read: the error is printed and the loop continues
MenuUploadUnreadable ==
    /\ cpc = "menu"
    /\ choice' = "6"
    /\ printed' = Shown("Error reading file: ", "OSError")
    /\ UNCHANGED <<cpc, request, server>>

MenuDeleteObject ==
    /\ cpc = "menu"
    /\ \E b \in Buckets, k \in Keys :
           GuardedCall("7", "DeleteObject", [bucket |-> b, key |-> k],
                       "Delete result: ", "Error deleting object: ")

MenuExit ==
    /\ cpc = "menu"
    /\ choice' = "8"
    /\ printed' = Shown("Exiting...", "")
    /\ cpc' = "exited"
    /\ UNCHANGED <<request, server>>

MenuInvalid ==
    /\ cpc = "menu"
    /\ choice' \in {"9", "x"}
    /\ printed' = Shown("Invalid choice, please try again.", "")
    /\ UNCHANGED <<cpc, request, server>>

NextClient ==
    \/ MenuListBuckets
    \/ MenuCreateBucket
    \/ MenuDeleteBucket
    \/ MenuListObjects
    \/ MenuGetObject
    \/ MenuUpload
    \/ MenuUploadUnreadable
    \/ MenuDeleteObject
    \/ MenuExit
    \/ MenuInvalid

InitClient ==
    /\ InitServer
    /\ awsRegion = "us-east-1"
    /\ buckets = {}
    /\ objs = [b \in Buckets |-> EmptyBucket]
    /\ versioned = [b \in Buckets |-> FALSE]
    /\ hist = [b \in Buckets |-> {}]

SpecClient == InitClient /\ [][NextClient]_vars

(***************************************************************************)
(* Properties                                                              *)
(***************************************************************************)
ForcedDelete == call.tool = "DeleteBucket" /\ call.force

HandlerStep ==
    \/ HeadBucket
    \/ ListObjectsPage
    \/ DeleteObjectsBatch
    \/ ListVersionsPage
    \/ DeleteVersionsBatch
    \/ DeleteBucketRequest

\* request j asks for the deletion of entry e: by key alone for the current
\* object, by key and version id otherwise
AsksDeletion(j, e) ==
    /\ reqs[j].op = "delete_objects"
    /\ \/ e.VersionId = 0 /\ [Key |-> e.Key] \in reqs[j].params.Objects
       \/ VersionRef(e) \in reqs[j].params.Objects

\* C1: in a forced DeleteBucket the delete_bucket request is issued only after
\* head_bucket succeeded and after every object, version and delete marker the
\* bucket held when the call began has been sent for deletion.
C1_DeleteBucketOnlyAfterAllSent ==
    ForcedDelete =>
        \A i \in DOMAIN reqs :
            reqs[i].op = "delete_bucket" =>
                /\ reqs[1].op = "head_bucket" /\ reqs[1].answer = "ok"
                /\ \A e \in snap : \E j \in 1..(i - 1) : AsksDeletion(j, e)

\* C2: a forced DeleteBucket of a bucket that does not exist when the call
\* begins never produces a Failure, ends with one Success, and leaves the
\* set of buckets as it was.
C2_ForcedDeleteIdempotent ==
    (ForcedDelete /\ call.bucket \notin call.before) =>
        /\ buckets = call.before
        /\ \A i \in DOMAIN out : out[i].kind = "Success"
        /\ pc = "done" => Len(out) = 1

C2_Witness ==
    /\ pc = "done"
    /\ ForcedDelete
    /\ call.bucket \notin call.before
    /\ reqs = <<Req("head_bucket", [Bucket |-> call.bucket], "404")>>
    /\ Len(out) = 1 /\ out[1].kind = "Success"

CreateDone == pc = "done" /\ call.tool = "CreateBucket"

\* the region the bucket is created in: the argument, or the configured
\* default when the argument is left out or empty
EffectiveRegion ==
    IF "region" \in DOMAIN call.args /\ call.args.region # ""
    THEN call.args.region ELSE awsRegion

CarriesConstraint(p) == "CreateBucketConfiguration" \in DOMAIN p

\* C3 as stated: the create_bucket request carries no location constraint
\* exactly when the effective region is the configured default region, and
\* otherwise a constraint equal to the effective region.
C3_NoConstraintIffDefaultRegion ==
    CreateDone =>
        LET p == reqs[1].params
        IN  /\ ~CarriesConstraint(p) <=> EffectiveRegion = awsRegion
            /\ CarriesConstraint(p) =>
                   p.CreateBucketConfiguration.LocationConstraint = EffectiveRegion

\* C3 amended: the create_bucket request carries no location constraint
\* exactly when the effective region is us-east-1, and otherwise a constraint
\* equal to the effective region.
C3_NoConstraintIffUsEast1 ==
    CreateDone =>
        LET p == reqs[1].params
        IN  /\ ~CarriesConstraint(p) <=> EffectiveRegion = "us-east-1"
            /\ CarriesConstraint(p) =>
                   p.CreateBucketConfiguration.LocationConstraint = EffectiveRegion

C3_Witness ==
    /\ CreateDone
    /\ awsRegion = "eu-west-1"
    /\ "region" \notin DOMAIN call.args
    /\ CarriesConstraint(reqs[1].params)
    /\ reqs[1].params.CreateBucketConfiguration.LocationConstraint = "eu-west-1"

\* the message each tool's handler raises starts with
FailurePrefix ==
    [ListBuckets  |-> "Failed to list buckets: ",
     CreateBucket |-> "Failed to create bucket: ",
     DeleteBucket |-> "Failed to delete bucket: ",
     ListObjects  |-> "Failed to list objects: ",
     GetObject    |-> "Failed to get object: ",
     PutObject    |-> "Failed to put object: ",
     DeleteObject |-> "Failed to delete object: "]

ToolCall == call.tool \in DOMAIN FailurePrefix

\* C4: every call of one of the seven tools ends in exactly one result, a
\* Success or a Failure; a Failure names the operation and carries the error
\* of the backend request that raised; a running handler has produced no
\* result yet and can always take its next step.
C4_ExactlyOneResult ==
    /\ (pc = "done" /\ ToolCall) =>
        /\ Len(out) = 1
        /\ out[1].kind \in {"Success", "Failure"}
        /\ out[1].kind = "Failure" =>
            /\ out[1].prefix = FailurePrefix[call.tool]
            /\ reqs # << >>
            /\ reqs[Len(reqs)].answer # "ok"
            /\ out[1].cause = reqs[Len(reqs)].answer
    /\ pc \notin {"idle", "done"} => (out = << >> /\ ENABLED HandlerStep)

C4_Witness ==
    /\ pc = "done"
    /\ ForcedDelete
    /\ Len(reqs) >= 3
    /\ reqs[Len(reqs)].op = "delete_objects"
    /\ out = <<Failure("Failed to delete bucket: ", "AccessDenied")>>

\* C5: whenever a backend request of a tool call raises (other than
\* head_bucket finding no bucket), the call ends in a Failure that carries
\* that error.
C5_NoBackendErrorSwallowed ==
    (pc = "done" /\ ToolCall) =>
        \A i \in DOMAIN reqs :
            (reqs[i].answer # "ok"
             /\ ~(reqs[i].op = "head_bucket" /\ reqs[i].answer = "404")) =>
                /\ out[1].kind = "Failure"
                /\ out[1].cause = reqs[i].answer

\* the bytes stored under the key of the call
Stored == Body(objs[call.args.bucket][call.args.key])

\* the bytes a consumer recovers from a payload: it reverses base64 when the
\* payload carries that marker, and encodes text as UTF-8 otherwise
DecodePayload(p) ==
    IF p.type = "dict"
    THEN IF p.value.encoding = "base64" THEN B64Decode(p.value.content)
         ELSE Utf8Encode(p.value.content)
    ELSE Utf8Encode(p.value)

GetReturned == pc = "done" /\ call.tool = "GetObject" /\ out[1].kind = "Success"

\* C6: what GetObject returns decodes to exactly the stored bytes, and bytes
\* under a .txt key that are not valid UTF-8 come back binary-encoded with
\* the marker of the encoding.
C6_GetObjectByteExact ==
    GetReturned =>
        LET p == out[1].payload
        IN  /\ DecodePayload(p) = Stored
            /\ (call.args.key.ext = "txt" /\ ~Utf8Valid(Stored)) =>
                   (p.type = "dict" /\ p.value.encoding = "base64")

ResourceRead == pc = "done" /\ call.tool = "resource" /\ reqs[1].answer = "ok"

\* text made of characters of the base64 alphabet, padded to a multiple of four
IsBase64Text(s) ==
    /\ Len(s) % 4 = 0
    /\ \A i \in DOMAIN s : s[i] = B64Pad \/ B64Val(s[i]) >= 0

\* C7: a read of s3://bucket/key that reaches the object returns text: the
\* text whose UTF-8 encoding is the stored bytes when the key is a text key
\* and the bytes are valid UTF-8, and otherwise (text key with invalid bytes,
\* or binary key) the base64 text of the stored bytes; never an error.
C7_ResourceReadContent ==
    ResourceRead =>
        /\ Len(out) = 1
        /\ out[1].kind = "Success"
        /\ out[1].payload.type = "str"
        /\ LET r == out[1].payload.value
           IN  IF is_text_file(call.args.key) /\ Utf8Valid(Stored)
               THEN Utf8Encode(r) = Stored
               ELSE IsBase64Text(r) /\ B64Decode(r) = Stored

C7_Witness ==
    /\ ResourceRead
    /\ is_text_file(call.args.key)
    /\ ~Utf8Valid(Stored)
    /\ Len(Stored) = MaxLen
    /\ out[1].kind = "Success"

\* the content string last stored by PutObject under the key of the call
WrittenHere == written[call.args.bucket][call.args.key]

\* C8: a GetObject that follows a successful PutObject of a content string on
\* the same key, with nothing in between that replaced or deleted the object,
\* finds the object and returns exactly that string as plain text.
C8_ReadYourWrite ==
    (pc = "done" /\ call.tool = "GetObject" /\ WrittenHere # NoText) =>
        /\ reqs[1].answer \in {"ok"} \cup Faults
        /\ reqs[1].answer = "ok" =>
               \A c \in WrittenHere : out = <<Success(Text(c))>>

C8_Witness ==
    /\ pc = "done"
    /\ call.tool = "GetObject"
    /\ WrittenHere = {<<233, 8364, 128512>>}
    /\ out = <<Success(Text(<<233, 8364, 128512>>))>>

PutDone == pc = "done" /\ call.tool = "PutObject"

\* C10: the put_object request and the result of a PutObject call are those
\* of the call's declared arguments alone: the body is the content string as
\* passed, the content type the one passed or text/plain, whether or not
\* is_base64 is present and whatever its value.
C10_ExtraArgumentIgnored ==
    PutDone =>
        LET a == call.args
            answer == reqs[1].answer
            ctype == IF "content_type" \in DOMAIN a THEN a.content_type ELSE "text/plain"
        IN  /\ reqs = <<Req("put_object",
                            [Bucket |-> a.bucket, Key |-> a.key, Body |-> a.content,
                             ContentType |-> ctype], answer)>>
            /\ out = <<IF answer = "ok" THEN Success(Dict([status |-> "success"]))
                       ELSE Failure("Failed to put object: ", answer)>>
            /\ answer = "ok" => objs[a.bucket][a.key] = Obj(Utf8Encode(a.content))

C10_Witness ==
    /\ PutDone
    /\ "is_base64" \in DOMAIN call.args
    /\ call.args.is_base64
    /\ call.args.content # << >>
    /\ reqs[1].answer = "ok"

\* C9: the client leaves the menu loop only by the choice Exit; no failed
\* call ends the session.
C9_LoopLeftOnlyByExit ==
    cpc # "menu" => (cpc = "exited" /\ choice = "8")

\* the call under way is a DeleteBucket whose force is left out or false
Unforced(c) ==
    /\ c.tool = "DeleteBucket"
    /\ "force" \in DOMAIN c.args => ~c.args.force

\* C11: a DeleteBucket without force (left out or false) issues the
\* delete_bucket request and nothing else: no head_bucket, no listing, no
\* delete_objects; on a bucket that holds an object, version or delete marker
\* the backend's rejection comes back as the Failure of the call, and the
\* buckets, their objects, versions and markers are as they were.
C11_UnforcedDelegatesDirectly ==
    [][Unforced(call') =>
        /\ Len(reqs') <= 1
        /\ \A i \in DOMAIN reqs' : reqs'[i].op = "delete_bucket"
        /\ pc' = "done" => Len(reqs') = 1
        /\ (pc' = "done" /\ pc # "done" /\ AllEntries(call'.bucket) # {}) =>
            /\ reqs'[1].answer \in {"BucketNotEmpty"} \cup Faults
            /\ out' = <<Failure("Failed to delete bucket: ", reqs'[1].answer)>>
            /\ UNCHANGED backend]_vars

C11_Witness ==
    /\ pc = "done"
    /\ Unforced(call)
    /\ "force" \notin DOMAIN call.args
    /\ \E e \in hist[call.bucket] : e.IsMarker
    /\ reqs = <<Req("delete_bucket", [Bucket |-> call.bucket], "BucketNotEmpty")>>
    /\ out = <<Failure("Failed to delete bucket: ", "BucketNotEmpty")>>
    /\ buckets = call.before

\* how many requests of the call so far asked for operation op
Asked(op) == Cardinality({i \in DOMAIN reqs : reqs[i].op = op})

\* a forced DeleteBucket of a bucket that existed has ended and none of its
\* requests met a backend fault
ForcedFaultFree ==
    /\ pc = "done"
    /\ ForcedDelete
    /\ call.bucket \in call.before
    /\ \A i \in DOMAIN reqs : reqs[i].answer \notin Faults

\* C12: with no backend fault and nobody else writing, a forced DeleteBucket
\* of an existing bucket terminates; it has fetched enough pages of both
\* listings to cover what the bucket held, has sent every object, version and
\* delete marker for deletion, and ends with the bucket empty and deleted and
\* the Success of the deletion.
C12_ForcedDeleteExhaustsPages ==
    /\ [](ForcedFaultFree =>
            /\ out = <<Success(Dict([status |-> "success", message |-> "deleted"]))>>
            /\ reqs[Len(reqs)] = Req("delete_bucket", [Bucket |-> call.bucket], "ok")
            /\ call.bucket \notin buckets
            /\ AllEntries(call.bucket) = {}
            /\ \A e \in snap : \E j \in DOMAIN reqs : AsksDeletion(j, e)
            /\ Asked("list_objects_v2") >= 1
            /\ Asked("list_objects_v2") * PageSize
                   >= Cardinality({e \in snap : e.VersionId = 0})
            /\ Asked("list_object_versions") >= 1
            /\ Asked("list_object_versions") * PageSize
                   >= Cardinality({e \in snap : e.VersionId # 0}))
    /\ (pc \notin {"idle", "done"}) ~> (pc = "done")

C12_Witness ==
    /\ ForcedFaultFree
    /\ Cardinality(snap) >= 4
    /\ Asked("list_objects_v2") >= 2
    /\ Asked("list_object_versions") >= 3
    /\ out = <<Success(Dict([status |-> "success", message |-> "deleted"]))>>

\* C13: while the handler of one session waits on its backend request, a tool
\* call that has arrived on another session can start (and so complete)
\* before that request returns.
C13_BackendCallDoesNotBlock ==
    \A a \in Sessions, b \in Sessions :
        (a # b /\ sess[a].state = "in_backend" /\ sess[b].state = "arrived") =>
            ENABLED Start(b)

====
